---- MODULE Spec2Model ----
(***************************************************************************)
(* Model of the Transactions Summary API (src/app/main.py).                *)
(*                                                                         *)
(* State: the DuckDB transactions table (a multiset of typed rows), the    *)
(* lazily created schema, the temporary files on disk, and the request     *)
(* being answered together with its response.  One action per endpoint:   *)
(* Upload is upload_csv, Summary is summary_user; Return hands the         *)
(* response to the client and forgets the request.                         *)
(*                                                                         *)
(* Text is a sequence of one-character strings.  An optional value is a    *)
(* sequence of length 0 (None / SQL NULL) or 1.  DOUBLE amounts are held   *)
(* in tenths; TIMESTAMP values are seconds since the start of day 0; a     *)
(* calendar date is its day number.                                        *)
(***************************************************************************)
EXTENDS Integers, Sequences, FiniteSets, Bags, TLC

VARIABLES
    table,        \* the rows of the transactions table (main.py 35-41), a bag
    tableExists,  \* the table has been created (get_conn, main.py 33-43)
    tmpFiles,     \* the temporary files on disk (main.py 101-103, 151)
    phase,        \* "idle", or "responded" once a handler has answered
    op,           \* the endpoint that answered: "upload", "summary" or "none"
    req,          \* the request that was answered
    resp,         \* its response, with the steps the handler started
    before,       \* history: table, tableExists and tmpFiles when it was called
    committed     \* history: rows per user of the uploads answered 200

vars == <<table, tableExists, tmpFiles, phase, op, req, resp, before, committed>>

----------------------------------------------------------------------------
(* Bounds of the model *)

MaxFileRows == 2
MaxTableRows == 3
MaxTmpFiles == 1
MaxDay == 3

(* Program constants *)

SecondsPerDay == 86400
Int32Max == 2147483647

None == <<>>
Some(v) == <<v>>

----------------------------------------------------------------------------
(* Text helpers *)

Digits == {"0", "1", "2", "3", "4", "5", "6", "7", "8", "9"}

DigitVal(c) ==
    CASE c = "0" -> 0 [] c = "1" -> 1 [] c = "2" -> 2 [] c = "3" -> 3
      [] c = "4" -> 4 [] c = "5" -> 5 [] c = "6" -> 6 [] c = "7" -> 7
      [] c = "8" -> 8 [] c = "9" -> 9

UpperToLower ==
    ("A" :> "a") @@ ("C" :> "c") @@ ("S" :> "s") @@ ("T" :> "t")
      @@ ("V" :> "v") @@ ("X" :> "x")

(* variant: the name compared as it is, case included *)
LowerIdentity(s) == s

(* str.lower() *)
Lower(s) ==
    [i \in 1..Len(s) |-> IF s[i] \in DOMAIN UpperToLower THEN UpperToLower[s[i]] ELSE s[i]]

(* str.endswith(suffix) *)
EndsWith(s, suffix) ==
    /\ Len(s) >= Len(suffix)
    /\ SubSeq(s, Len(s) - Len(suffix) + 1, Len(s)) = suffix

CsvSuffix == <<".", "c", "s", "v">>

(* line 96: file.filename.lower().endswith(".csv") *)
IsCsvName(name) == EndsWith(Lower(name), CsvSuffix)

RECURSIVE StripLeft(_)
StripLeft(s) == IF s # <<>> /\ Head(s) = " " THEN StripLeft(Tail(s)) ELSE s

RECURSIVE StripRight(_)
StripRight(s) ==
    IF s # <<>> /\ s[Len(s)] = " " THEN StripRight(SubSeq(s, 1, Len(s) - 1)) ELSE s

Strip(s) == StripRight(StripLeft(s))

AllDigits(s) == s # <<>> /\ \A i \in 1..Len(s) : s[i] \in Digits

RECURSIVE ParseNat(_)
ParseNat(s) ==
    IF s = <<>> THEN 0
    ELSE ParseNat(SubSeq(s, 1, Len(s) - 1)) * 10 + DigitVal(s[Len(s)])

----------------------------------------------------------------------------
(* The casts of the INSERT ... SELECT CAST(...) statement.  A cast gives    *)
(* [ok |-> TRUE, val |-> optional value] or fails (ConversionException).    *)
(* An empty CSV field is read as NULL, and NULL casts to NULL.              *)

CastOk(v) == [ok |-> TRUE, val |-> v]
ConversionError == [ok |-> FALSE, val |-> None]

(* CAST(transaction_id AS VARCHAR) *)
CastVarchar(raw) == IF raw = <<>> THEN CastOk(None) ELSE CastOk(Some(raw))

(* CAST(x AS INTEGER): surrounding blanks are ignored, the digits must fit 32 bits *)
CastInteger(raw) ==
    IF raw = <<>> THEN CastOk(None)
    ELSE LET s == Strip(raw) IN
         IF AllDigits(s) /\ Len(s) <= 10 /\ ParseNat(s) <= Int32Max
         THEN CastOk(Some(ParseNat(s)))
         ELSE ConversionError

DotAt(s) == IF \E i \in 1..Len(s) : s[i] = "."
            THEN CHOOSE i \in 1..Len(s) : s[i] = "." /\ \A j \in 1..(i - 1) : s[j] # "."
            ELSE 0

(* a decimal number with surrounding blanks ignored, in tenths (the input   *)
(* pool has at most one fractional digit)                                   *)
ParseDecimal(raw) ==
    LET s == Strip(raw)
        d == DotAt(s)
    IN  IF d = 0
        THEN IF AllDigits(s) THEN CastOk(Some(ParseNat(s) * 10)) ELSE ConversionError
        ELSE LET whole == SubSeq(s, 1, d - 1)
                 frac  == SubSeq(s, d + 1, Len(s))
             IN  IF AllDigits(whole) /\ AllDigits(frac)
                 THEN CastOk(Some(ParseNat(whole) * 10 + DigitVal(frac[1])))
                 ELSE ConversionError

(* variant: an empty field read as the number zero *)
CastDoubleEmptyIsZero(raw) == IF raw = <<>> THEN CastOk(Some(0)) ELSE ParseDecimal(raw)

(* CAST(transaction_amount AS DOUBLE) *)
CastDouble(raw) == IF raw = <<>> THEN CastOk(None) ELSE ParseDecimal(raw)

(* CAST(timestamp AS TIMESTAMP): the text "day hh:mm:ss" is held as         *)
(* <<day, hh, mm, ss>>; a field out of range is a conversion error          *)
CastTimestamp(raw) ==
    IF raw = <<>> THEN CastOk(None)
    ELSE IF raw[1] >= 0 /\ raw[2] \in 0..23 /\ raw[3] \in 0..59 /\ raw[4] \in 0..59
         THEN CastOk(Some(raw[1] * SecondsPerDay + raw[2] * 3600 + raw[3] * 60 + raw[4]))
         ELSE ConversionError

----------------------------------------------------------------------------
(* Columns *)

Required == {"transaction_id", "user_id", "product_id", "timestamp", "transaction_amount"}

AllColumns == Required \cup {"note"}

(* the column names in the order Python compares strings *)
NameOrder ==
    <<"note", "product_id", "timestamp", "transaction_amount", "transaction_id", "user_id">>

(* variant: the missing names in descending order *)
ReverseMissing(missing) ==
    LET up == SelectSeq(NameOrder, LAMBDA c : c \in missing)
    IN  [i \in 1..Len(up) |-> up[Len(up) + 1 - i]]

(* line 123: sorted(missing) *)
SortedMissing(missing) == SelectSeq(NameOrder, LAMBDA c : c \in missing)

(* variant: the columns must be exactly the required ones *)
MissingOrExtraColumns(cols) == (Required \ cols) \cup (cols \ Required)

(* line 122: required - cols *)
MissingColumns(cols) == Required \ cols

----------------------------------------------------------------------------
(* The transactions table: a multiset of typed rows *)

CastRow(r) ==
    [transaction_id     |-> CastVarchar(r["transaction_id"]),
     user_id            |-> CastInteger(r["user_id"]),
     product_id         |-> CastInteger(r["product_id"]),
     timestamp          |-> CastTimestamp(r["timestamp"]),
     transaction_amount |-> CastDouble(r["transaction_amount"])]

RowCasts(r) == LET cast == CastRow(r) IN \A c \in Required : cast[c].ok

TypedRow(r) == LET cast == CastRow(r) IN [c \in Required |-> cast[c].val]

RECURSIVE RowsToBag(_)
RowsToBag(rows) ==
    IF rows = <<>> THEN EmptyBag
    ELSE SetToBag({TypedRow(Head(rows))}) (+) RowsToBag(Tail(rows))

(* variant: a row already stored is not stored again *)
AppendDistinct(tbl, rows) == SetToBag(BagToSet(tbl) \cup BagToSet(RowsToBag(rows)))

(* INSERT INTO transactions: the rows are added to those stored, with no    *)
(* key and no deduplication (the schema of lines 35-41 declares none)       *)
AppendRows(tbl, rows) == tbl (+) RowsToBag(rows)

RECURSIVE CastingPrefix(_)
CastingPrefix(rows) ==
    IF rows = <<>> \/ ~RowCasts(Head(rows)) THEN <<>>
    ELSE <<Head(rows)>> \o CastingPrefix(Tail(rows))

AllCast(rows) == \A i \in 1..Len(rows) : RowCasts(rows[i])

(* variant: the rows inserted one by one until one fails to cast *)
InsertTypedRowByRow(tbl, rows) ==
    [ok       |-> AllCast(rows),
     table    |-> AppendRows(tbl, CastingPrefix(rows)),
     inserted |-> IF AllCast(rows) THEN Len(rows) ELSE 0]

(* lines 127-139: one INSERT ... SELECT CAST(...) statement; it inserts    *)
(* every row or, when some value does not cast, none                        *)
InsertTyped(tbl, rows) ==
    IF AllCast(rows)
    THEN [ok |-> TRUE, table |-> AppendRows(tbl, rows), inserted |-> Len(rows)]
    ELSE [ok |-> FALSE, table |-> tbl, inserted |-> 0]

----------------------------------------------------------------------------
(* summary_user: the WHERE clause and the aggregate query *)

(* variant: start = end refused as well *)
InvalidRangeOrEqual(start, end) == start # None /\ end # None /\ end[1] <= start[1]

(* line 172: start and end and end < start *)
InvalidRange(start, end) == start # None /\ end # None /\ end[1] < start[1]

(* line 181: datetime.combine(start, datetime.min.time()) *)
StartBound(day) == day * SecondsPerDay

(* variant: the upper bound at end 00:00:00, the day of end left out *)
EndSameDay(day) == day * SecondsPerDay

(* line 183: datetime.combine(end, datetime.min.time()) + timedelta(days=1) *)
EndNext(day) == day * SecondsPerDay + SecondsPerDay

(* lines 178-185 and 193: the conditions, joined by AND; a comparison with  *)
(* a NULL is not true                                                       *)
Where(row, user_id, start, end) ==
    /\ row.user_id = Some(user_id)
    /\ start # None =>
          row.timestamp # None /\ row.timestamp[1] >= StartBound(start[1])
    /\ end # None =>
          row.timestamp # None /\ row.timestamp[1] < EndNext(end[1])

Matching(tbl, user_id, start, end) ==
    LET hit == {r \in BagToSet(tbl) : Where(r, user_id, start, end)}
    IN  [r \in hit |-> tbl[r]]

RECURSIVE SumAmounts(_, _)
SumAmounts(bag, rows) ==
    IF rows = {} THEN 0
    ELSE LET r == CHOOSE x \in rows : TRUE
         IN  bag[r] * r.transaction_amount[1] + SumAmounts(bag, rows \ {r})

SetMin(S) == CHOOSE m \in S : \A v \in S : m <= v
SetMax(S) == CHOOSE m \in S : \A v \in S : m >= v

(* lines 187-197: the row count, and MIN, MAX and AVG of the non-null      *)
(* transaction_amount over the matching rows; the mean is the pair          *)
(* <<sum, number of values>>                                                *)
Aggregate(tbl, user_id, start, end) ==
    LET m       == Matching(tbl, user_id, start, end)
        valued  == {r \in DOMAIN m : r.transaction_amount # None}
        amounts == {r.transaction_amount[1] : r \in valued}
        n       == BagCardinality([r \in valued |-> m[r]])
    IN  [count |-> BagCardinality(m),
         min   |-> IF valued = {} THEN None ELSE Some(SetMin(amounts)),
         max   |-> IF valued = {} THEN None ELSE Some(SetMax(amounts)),
         mean  |-> IF valued = {} THEN None ELSE Some(<<SumAmounts(m, valued), n>>)]

NoStats == [count |-> 0, min |-> None, max |-> None, mean |-> None]

(* lines 157-209.  q = [user_id, start, end, fault]; fault "engine" is a    *)
(* DuckDB error on connecting or querying, which the handler does not       *)
(* catch (the framework answers 500)                                        *)
SummaryUser(tbl, exists, q) ==
    IF InvalidRange(q.start, q.end)
    THEN [status |-> 400, detail |-> "end date must be on/after start date.",
          body |-> NoStats, tableExists |-> exists, steps |-> {}]
    ELSE IF q.fault = "engine"
    THEN [status |-> 500, detail |-> "Internal Server Error",
          body |-> NoStats, tableExists |-> exists, steps |-> {"engine"}]
    ELSE LET a == Aggregate(tbl, q.user_id, q.start, q.end)
         IN  IF a.count = 0
             THEN [status |-> 404, detail |-> "No transactions found for the given criteria.",
                   body |-> NoStats, tableExists |-> TRUE, steps |-> {"engine"}]
             ELSE [status |-> 200, detail |-> "", body |-> a,
                   tableExists |-> TRUE, steps |-> {"engine"}]

----------------------------------------------------------------------------
(* upload_csv *)

(* tempfile.NamedTemporaryFile: a name no file on disk has *)
FreshTmp(tmp) == CHOOSE n \in 1..(Cardinality(tmp) + 1) :
                     n \notin tmp /\ \A k \in 1..(n - 1) : k \in tmp

UploadReply(status, detail, missing, inserted, tbl, exists, tmp, steps, path) ==
    [status |-> status, detail |-> detail, missing |-> missing,
     rows_inserted |-> inserted, table |-> tbl, tableExists |-> exists,
     tmpFiles |-> tmp, steps |-> steps, tmp_path |-> path]

(* lines 148-153: os.remove(tmp_path), its failure swallowed *)
Finally(tmp, path, fault) == IF fault = "remove" THEN tmp \cup {path} ELSE tmp

(* lines 83-153.  r = [name, header, rows, fault]; fault names the step at  *)
(* which the environment fails: "create" (NamedTemporaryFile), "write"      *)
(* (file.read / tmp.write), "connect" (get_conn), "view" (read_csv_auto or  *)
(* DESCRIBE), "insert" (a DuckDB error of the INSERT other than a           *)
(* conversion error), "remove" (os.remove), or "none".  steps are the       *)
(* steps of the handler that were started.                                  *)
UploadCsv(tbl, exists, tmp, r) ==
    IF ~IsCsvName(r.name)
    THEN UploadReply(400, "Only CSV files are accepted.", <<>>, None,
                     tbl, exists, tmp, {}, None)
    ELSE IF r.fault = "create"
    THEN UploadReply(500, "Failed to save uploaded file", <<>>, None,
                     tbl, exists, tmp, {"create"}, None)
    ELSE LET path == FreshTmp(tmp) IN
    IF r.fault = "write"
    THEN UploadReply(500, "Failed to save uploaded file", <<>>, None,
                     tbl, exists, tmp \cup {path}, {"create", "write"}, Some(path))
    ELSE LET left   == Finally(tmp, path, r.fault)
             staged == {"create", "write", "connect", "remove"}
         IN
    IF r.fault = "connect"
    THEN UploadReply(500, "Internal Server Error", <<>>, None,
                     tbl, exists, left, staged, Some(path))
    ELSE IF r.fault = "view"
    THEN UploadReply(500, "Internal Server Error", <<>>, None,
                     tbl, TRUE, left, staged \cup {"view"}, Some(path))
    ELSE IF MissingColumns(r.header) # {}
    THEN UploadReply(400, "Missing columns", SortedMissing(MissingColumns(r.header)), None,
                     tbl, TRUE, left, staged \cup {"view", "describe"}, Some(path))
    ELSE LET all == staged \cup {"view", "describe", "insert"} IN
    IF r.fault = "insert"
    THEN UploadReply(400, "Ingestion error", <<>>, None,
                     tbl, TRUE, left, all, Some(path))
    ELSE LET ins == InsertTyped(tbl, r.rows) IN
    IF ~ins.ok
    THEN UploadReply(400, "Invalid data format", <<>>, None,
                     ins.table, TRUE, left, all, Some(path))
    ELSE UploadReply(200, "ok", <<>>, Some(ins.inserted),
                     ins.table, TRUE, left, all, Some(path))

----------------------------------------------------------------------------
(* The requests the clients send *)

RowA ==
    [transaction_id |-> <<"a">>, user_id |-> <<"1">>, product_id |-> <<"7">>,
     timestamp |-> <<1, 23, 59, 59>>, transaction_amount |-> <<" ", "4", "2", ".", "5", " ">>,
     note |-> <<"n">>]

RowB ==
    [transaction_id |-> <<"b">>, user_id |-> <<"1">>, product_id |-> <<"7">>,
     timestamp |-> <<2, 0, 0, 0>>, transaction_amount |-> <<>>,
     note |-> <<"n">>]

RowC ==
    [transaction_id |-> <<"c">>, user_id |-> <<" ", "2">>, product_id |-> <<"7">>,
     timestamp |-> <<1, 0, 0, 0>>, transaction_amount |-> <<"1", "0">>,
     note |-> <<"n">>]

RowBadUser ==
    [transaction_id |-> <<"x">>, user_id |-> <<"x">>, product_id |-> <<"7">>,
     timestamp |-> <<1, 12, 0, 0>>, transaction_amount |-> <<"1", "0">>,
     note |-> <<"n">>]

RowBadAmount ==
    [transaction_id |-> <<"y">>, user_id |-> <<"1">>, product_id |-> <<"7">>,
     timestamp |-> <<2, 12, 0, 0>>, transaction_amount |-> <<"t", "e", "n">>,
     note |-> <<"n">>]

RowPool == {RowA, RowB, RowC, RowBadUser, RowBadAmount}

RowSeqs == UNION {[1..k -> RowPool] : k \in 0..MaxFileRows}

Headers == {Required, AllColumns, {"note"}, {"transaction_id", "timestamp", "note"}}

(* a step can fail only if the handler starts it *)
FaultHappens(fault, steps) == fault = "none" \/ fault \in steps

Project(rows, header) == [i \in 1..Len(rows) |-> [c \in header |-> rows[i][c]]]

Names ==
    {<<"a", ".", "c", "s", "v">>, <<"A", ".", "C", "S", "V">>,
     <<"a", ".", "C", "s", "v">>, <<"a", ".", "t", "x", "t">>}

UploadFaults == {"none", "create", "write", "connect", "view", "insert", "remove"}

UploadRequests ==
    {[name |-> n, header |-> h, rows |-> Project(rs, h), fault |-> f] :
        n \in Names, h \in Headers, rs \in RowSeqs, f \in UploadFaults}

Users == {1, 2, 3}

Dates == {None} \cup {Some(d) : d \in 1..MaxDay}

SummaryRequests ==
    [user_id : Users, start : Dates, end : Dates, fault : {"none", "engine"}]

(* the rows of a file that are stored for user u when the file is accepted *)
RowsFor(rows, u) ==
    Cardinality({i \in 1..Len(rows) : CastInteger(rows[i]["user_id"]).val = Some(u)})

----------------------------------------------------------------------------
(* The state machine *)

Nothing == <<>>

Init ==
    /\ table = EmptyBag
    /\ tableExists = FALSE
    /\ tmpFiles = {}
    /\ phase = "idle"
    /\ op = "none"
    /\ req = Nothing
    /\ resp = Nothing
    /\ before = Nothing
    /\ committed = [u \in Users |-> 0]

Snapshot == [table |-> table, tableExists |-> tableExists, tmpFiles |-> tmpFiles]

(* POST /upload *)
Upload ==
    /\ phase = "idle"
    /\ \E r \in UploadRequests :
         \E out \in {UploadCsv(table, tableExists, tmpFiles, r)} :
         /\ FaultHappens(r.fault, out.steps)
         /\ BagCardinality(out.table) <= MaxTableRows
         /\ Cardinality(out.tmpFiles) <= MaxTmpFiles
         /\ table' = out.table
         /\ tableExists' = out.tableExists
         /\ tmpFiles' = out.tmpFiles
         /\ req' = r
         /\ resp' = [status |-> out.status, detail |-> out.detail, missing |-> out.missing,
                     rows_inserted |-> out.rows_inserted, steps |-> out.steps,
                     tmp_path |-> out.tmp_path]
         /\ committed' = IF out.status = 200
                         THEN [u \in Users |-> committed[u] + RowsFor(r.rows, u)]
                         ELSE committed
    /\ before' = Snapshot
    /\ op' = "upload"
    /\ phase' = "responded"

(* GET /summary/{user_id} *)
Summary ==
    /\ phase = "idle"
    /\ \E q \in SummaryRequests :
         \E out \in {SummaryUser(table, tableExists, q)} :
         /\ FaultHappens(q.fault, out.steps)
         /\ tableExists' = out.tableExists
         /\ req' = q
         /\ resp' = [status |-> out.status, detail |-> out.detail, body |-> out.body,
                     steps |-> out.steps]
    /\ before' = Snapshot
    /\ op' = "summary"
    /\ phase' = "responded"
    /\ UNCHANGED <<table, tmpFiles, committed>>

(* the response reaches the client; the request is over *)
Return ==
    /\ phase = "responded"
    /\ phase' = "idle"
    /\ op' = "none"
    /\ req' = Nothing
    /\ resp' = Nothing
    /\ before' = Nothing
    /\ UNCHANGED <<table, tableExists, tmpFiles, committed>>

Next == Upload \/ Summary \/ Return

Spec == Init /\ [][Next]_vars

----------------------------------------------------------------------------
(* Properties *)

UploadDone == phase = "responded" /\ op = "upload"

SummaryDone == phase = "responded" /\ op = "summary"

(* the faults that leave the outcome of an upload to the request itself *)
NoUploadFault == req.fault \in {"none", "remove"}

HasAllRequired == Required \subseteq req.header

(* the name ends in ".csv", compared without regard to case *)
EndsCsvAnyCase(name) ==
    LET n == Len(name) IN
    /\ n >= 4
    /\ name[n - 3] = "."
    /\ name[n - 2] \in {"c", "C"}
    /\ name[n - 1] \in {"s", "S"}
    /\ name[n] \in {"v", "V"}

SomeRowFailsCast ==
    \E i \in 1..Len(req.rows) :
        LET cast == CastRow(req.rows[i]) IN \E c \in Required : ~cast[c].ok

(* the rule of the claims for a stored row and a summary request *)
InRange(row, q) ==
    /\ row.user_id = Some(q.user_id)
    /\ row.timestamp # None
    /\ q.start = None \/ row.timestamp[1] >= q.start[1] * SecondsPerDay
    /\ q.end = None \/ row.timestamp[1] < (q.end[1] + 1) * SecondsPerDay

RECURSIVE Copies(_, _)
Copies(bag, rows) ==
    IF rows = {} THEN 0
    ELSE LET r == CHOOSE x \in rows : TRUE IN bag[r] + Copies(bag, rows \ {r})

InRangeRows(tbl, q) == {r \in BagToSet(tbl) : InRange(r, q)}

InRangeCount(tbl, q) == Copies(tbl, InRangeRows(tbl, q))

RangeReversed(q) == q.start # None /\ q.end # None /\ q.end[1] < q.start[1]

Unbounded(u) == [user_id |-> u, start |-> None, end |-> None, fault |-> "none"]

(* C1: an upload in which some row has a value that does not cast leaves    *)
(* the transactions table exactly as it was, valid rows of the batch        *)
(* included, and is answered 400                                            *)
C1_AllOrNothing ==
    (UploadDone /\ EndsCsvAnyCase(req.name) /\ HasAllRequired /\ SomeRowFailsCast)
        => /\ table = before.table
           /\ NoUploadFault => resp.status = 400 /\ resp.detail = "Invalid data format"

C1_Witness ==
    /\ UploadDone
    /\ resp.detail = "Invalid data format"
    /\ Len(req.rows) = 2
    /\ RowCasts(req.rows[1])
    /\ ~RowCasts(req.rows[2])
    /\ before.table # EmptyBag

(* C2: a CSV with the five required columns, with or without extra ones,    *)
(* whose rows all cast is answered 200 with rows_inserted the number of     *)
(* data rows (0 for a header-only file), and the table grows by that many   *)
C2_RowsInserted ==
    (UploadDone /\ EndsCsvAnyCase(req.name) /\ HasAllRequired /\ ~SomeRowFailsCast
        /\ NoUploadFault)
        => /\ resp.status = 200
           /\ resp.rows_inserted = Some(Len(req.rows))
           /\ before.table \sqsubseteq table
           /\ BagCardinality(table) = BagCardinality(before.table) + Len(req.rows)

C2_Witness ==
    /\ UploadDone
    /\ resp.status = 200
    /\ req.header = AllColumns
    /\ resp.rows_inserted = Some(2)
    /\ before.table # EmptyBag

(* C3: the count of an unbounded summary for user u is the number of rows   *)
(* for u over all accepted uploads so far, repeated rows counted each time; *)
(* an accepted upload adds the number of its rows for u to u's count, and   *)
(* no request lowers a count                                                *)
C3_AppendOnly ==
    /\ (SummaryDone /\ req.start = None /\ req.end = None /\ req.fault = "none")
          => IF committed[req.user_id] = 0
             THEN resp.status = 404
             ELSE resp.status = 200 /\ resp.body.count = committed[req.user_id]
    /\ phase = "responded"
          => \A u \in Users :
               InRangeCount(table, Unbounded(u)) >= InRangeCount(before.table, Unbounded(u))
    /\ (UploadDone /\ resp.status = 200)
          => \A u \in Users :
               InRangeCount(table, Unbounded(u))
                 = InRangeCount(before.table, Unbounded(u)) + RowsFor(req.rows, u)

C3_Witness ==
    /\ SummaryDone
    /\ req.start = None /\ req.end = None
    /\ resp.status = 200
    /\ resp.body.count = 3
    /\ Cardinality(BagToSet(table)) < 3

(* C4: a stored row of the user with timestamp t is counted by a summary    *)
(* exactly when (start is absent or t >= start 00:00:00) and (end is absent *)
(* or t < the day after end 00:00:00)                                       *)
C4_InclusiveDays ==
    (SummaryDone /\ req.fault = "none" /\ ~RangeReversed(req))
        => IF InRangeCount(table, req) = 0
           THEN resp.status = 404
           ELSE resp.status = 200 /\ resp.body.count = InRangeCount(table, req)

C4_Witness ==
    /\ SummaryDone
    /\ req.user_id = 1 /\ req.start = Some(1) /\ req.end = Some(1)
    /\ resp.status = 200
    /\ resp.body.count = 1
    /\ \E r \in BagToSet(table) :
         r.user_id = Some(1) /\ r.timestamp = Some(1 * SecondsPerDay + 23 * 3600 + 59 * 60 + 59)
    /\ \E r \in BagToSet(table) :
         r.user_id = Some(1) /\ r.timestamp = Some(2 * SecondsPerDay)

(* C5: an empty transaction_amount is stored as null; a summary counts the  *)
(* matching rows whether or not their amount is null; with every matching   *)
(* amount null it is answered 200 with min, max and mean absent; otherwise  *)
(* min, max and mean are those of the non-null amounts                      *)
C5_NullAmounts ==
    /\ (UploadDone /\ resp.status = 200)
          => \A i \in 1..Len(req.rows) :
               req.rows[i]["transaction_amount"] = <<>>
                 => \E r \in BagToSet(table) :
                      /\ r.transaction_id = Some(req.rows[i]["transaction_id"])
                      /\ r.transaction_amount = None
    /\ (SummaryDone /\ resp.status = 200)
          => LET hit    == InRangeRows(table, req)
                 valued == {r \in hit : r.transaction_amount # None}
                 values == {r.transaction_amount[1] : r \in valued}
             IN  /\ resp.body.count = Copies(table, hit)
                 /\ IF valued = {}
                    THEN resp.body.min = None /\ resp.body.max = None
                           /\ resp.body.mean = None
                    ELSE /\ resp.body.min # None /\ resp.body.max # None
                         /\ resp.body.min[1] \in values /\ resp.body.max[1] \in values
                         /\ \A v \in values : resp.body.min[1] <= v /\ v <= resp.body.max[1]
                         /\ resp.body.mean =
                              Some(<<SumAmounts(table, valued), Copies(table, valued)>>)

C5_Witness ==
    /\ SummaryDone
    /\ resp.status = 200
    /\ resp.body.count = 2
    /\ resp.body.min = None /\ resp.body.max = None /\ resp.body.mean = None

(* C6: a summary with both dates given and end before start is answered     *)
(* 400 without any access to storage, whatever is stored; any other summary *)
(* is answered 404 exactly when no stored row matches the user and the date *)
(* bounds, and 200 otherwise                                                *)
C6_SummaryOutcome ==
    SummaryDone
        => IF RangeReversed(req)
           THEN /\ resp.status = 400
                /\ resp.steps = {}
                /\ tableExists = before.tableExists
           ELSE req.fault = "none"
                  => /\ resp.status \in {200, 404}
                     /\ resp.status = 404 <=> InRangeRows(table, req) = {}

C6_Witness ==
    /\ SummaryDone
    /\ resp.status = 400
    /\ req.user_id = 3
    /\ ~tableExists
    /\ table = EmptyBag

Position(c) == CHOOSE i \in 1..Len(NameOrder) : NameOrder[i] = c

(* C7: a .csv upload whose columns lack a required one is answered 400      *)
(* with every missing required column named, in sorted order; the insert    *)
(* is never attempted and the table is unchanged; extra columns are never   *)
(* the cause of a rejection                                                 *)
C7_MissingColumns ==
    /\ (UploadDone /\ EndsCsvAnyCase(req.name) /\ ~HasAllRequired)
          => /\ "insert" \notin resp.steps
             /\ table = before.table
             /\ NoUploadFault
                  => /\ resp.status = 400
                     /\ resp.detail = "Missing columns"
                     /\ {resp.missing[i] : i \in 1..Len(resp.missing)} = Required \ req.header
                     /\ \A i, j \in 1..Len(resp.missing) :
                          i < j => Position(resp.missing[i]) < Position(resp.missing[j])
    /\ (UploadDone /\ HasAllRequired) => resp.detail # "Missing columns"

C7_Witness ==
    /\ UploadDone
    /\ resp.status = 400
    /\ resp.missing = <<"product_id", "transaction_amount", "user_id">>
    /\ Len(req.rows) = 2
    /\ before.table # EmptyBag

(* C8: an upload whose file name does not end in ".csv", compared without   *)
(* regard to case, is answered 400 at once whatever the content: no         *)
(* temporary file is staged, storage is not accessed and the table is       *)
(* unchanged; a name ending in ".CSV" or ".Csv" is not rejected for its     *)
(* extension                                                                *)
C8_Extension ==
    UploadDone
        => IF ~EndsCsvAnyCase(req.name)
           THEN /\ resp.status = 400
                /\ resp.detail = "Only CSV files are accepted."
                /\ resp.steps = {}
                /\ resp.tmp_path = None
                /\ tmpFiles = before.tmpFiles
                /\ tableExists = before.tableExists
                /\ table = before.table
           ELSE resp.detail # "Only CSV files are accepted."

C8_Witness ==
    /\ UploadDone
    /\ ~EndsCsvAnyCase(req.name)
    /\ resp.status = 400
    /\ HasAllRequired /\ Len(req.rows) = 2 /\ ~SomeRowFailsCast
    /\ ~tableExists

(* C9: an upload is answered 400 only for an error of the caller's input    *)
(* (wrong extension, missing columns, a row that does not cast); a failure  *)
(* of staging or of the storage engine that is not a cast failure is        *)
(* answered 500                                                             *)
C9_StatusByCause ==
    UploadDone
        => /\ resp.status = 400
                => \/ ~EndsCsvAnyCase(req.name)
                   \/ ~HasAllRequired
                   \/ (SomeRowFailsCast /\ NoUploadFault)
           /\ req.fault \in {"create", "write", "connect", "view", "insert"}
                => resp.status = 500

(* C10: once an upload that created a temporary file has been answered,     *)
(* with any outcome, that file no longer exists (unless its removal itself  *)
(* failed), and a failure of the removal does not change the response       *)
C10_TempReleased ==
    UploadDone
        => /\ (resp.tmp_path # None /\ req.fault # "remove")
                => resp.tmp_path[1] \notin tmpFiles
           /\ req.fault = "remove"
                => LET clean == UploadCsv(before.table, before.tableExists, before.tmpFiles,
                                          [req EXCEPT !.fault = "none"])
                   IN  /\ resp.status = clean.status
                       /\ resp.detail = clean.detail
                       /\ resp.rows_inserted = clean.rows_inserted

====
